---- MODULE Spec2Model ----
(***************************************************************************)
(* Edge betweenness centrality of snailtrail as a timely dataflow:         *)
(* the time-keyed partitioner (push_time + exchange + map), the two        *)
(* bounded explorations, and the aggregation that reduces the merged       *)
(* exploration results to one centrality value per edge and logical time.  *)
(***************************************************************************)
EXTENDS Integers, Sequences, FiniteSets, Bags, TLC

(* ------------------------------ bounds --------------------------------- *)
MaxWorkers == 2
MaxTime == 2
MaxVal == 2
MaxItems == 3
HopLimit == 2
MaxHops == 3
MaxEntries == 2

(* ---------------------------- data model ------------------------------- *)
\* Option::None of an edge endpoint; nodes are 1, 2, 3.
None == 0

IsSome(n) == n # None

\* SrcDst::src and SrcDst::dst of an edge <<src, dst>>.
Src(e) == e[1]

Dst(e) == e[2]

Times == 1..MaxTime

Vals == 1..MaxVal

\* The edges of the runs: a chain 1 -> 2 -> 3, one edge entering the
\* observed system at 1 and one leaving it at 2.
BaseEdges == {<<None, 1>>, <<1, 2>>, <<2, 3>>}

FwdEntryEdges == {<<None, 1>>, <<1, 2>>}

BwdEntryEdges == {<<2, None>>, <<1, 2>>}

\* Value field of an item of the graph stream, which carries edges only.
NoVal == 0

Item(s, t, e, v) == [s |-> s, t |-> t, e |-> e, v |-> v]

VARIABLES
    peers,      \* worker.peers(): the number of workers of the run
    fed,        \* bag of all items the three input streams carry (fixed)
    input,      \* bag of items not yet seen by push_time
    xch,        \* bag of tagged items inside the time-keyed exchange
    part,       \* bag of items after exchange and map(|x| x.1), per worker
    explored,   \* the (worker, time, direction) explorations that have run
    output,     \* bag of <<t, e, v>>: results of the forward exploration
    output2,    \* bag of <<t, e, v>>: results of the backward exploration
    chan,       \* bag of <<t, e, v>>: filtered tuples on their way to aggregate
    aggregates, \* <<w, t, key>> -> the values pushed so far, in arrival order
    reduced,    \* history: the groups handed to the emit closure
    out,        \* bag of <<t, e, c>>: the (edge, centrality) output stream
    panicked,   \* per worker: <<>> or the panic it died with
    capacity,   \* the capacity policy of the explorations: its hop limit
    hasher,     \* crate::hash_code as a function of the edge
    graph,      \* one exploration, round by round: the bag of edges it runs on
    entries,    \* its entry points, a bag of <<edge, value>>
    dirn,       \* its direction, "fwd" or "bwd"
    frontier,   \* its frontier: key -> value
    hop,        \* the round it is about to run
    results,    \* bag of <<edge, value, round>> it has emitted
    operands,   \* scale_reduce on u64: <<self, other, mult>>, in digits
    product,    \* <<>> or the one result of scale_reduce on the operands
    values,     \* the emit closure on f64: the group it is given, a Vec<f64>
    verdict,    \* <<>> or what the closure did with the group
    round,      \* example driver, per worker: the round of its for loop
    pc,         \* per worker: "feed", "wait" or "done"
    epoch,      \* per worker: input.time()
    flight,     \* the records inside the dataflow: [t, i, at, stage]
    probe,      \* per worker: the frontier its probe handle shows
    closed      \* the records <<t, i>> that have passed the probe

pipeVars == <<peers, fed, input, xch, part, explored, output, output2, chan,
              aggregates, reduced, out, panicked>>

policyVars == <<capacity, hasher>>

engineVars == <<graph, entries, dirn, frontier, hop, results>>

scaleVars == <<operands, product>>

reduceVars == <<values, verdict>>

driverVars == <<round, pc, epoch, flight, probe, closed>>

vars == <<pipeVars, policyVars, engineVars, scaleVars, reduceVars, driverVars>>

Workers == 0..(peers - 1)

(* ------------------------- small bag helpers --------------------------- *)
RECURSIVE SumOver(_, _)
SumOver(f, S) ==
    IF S = {} THEN 0
    ELSE LET x == CHOOSE y \in S : TRUE
         IN  f[x] + SumOver(f, S \ {x})

BagOf(x) == SetToBag({x})

\* The sub-bag of B whose elements satisfy the set membership x \in S.
BagFilter(B, S) == [x \in (BagToSet(B) \cap S) |-> B[x]]

(* ---------------------- time-keyed partitioner -------------------------- *)
\* x.0.as_nanos() as u64: logical times are durations counted in
\* nanoseconds, far below 2^64, where the cast keeps the value.
AsNanosU64(t) == t

\* A tag that is the default time, not the time of the capability.
PushTimePairDefault(cap, datum) == <<0, datum>>

\* push_time: session.give((cap.time().clone(), datum)).
PushTimePair(cap, datum) == <<cap, datum>>

\* The exchange closure |x| x.0.as_nanos() as u64.
TimeKey(x) == AsNanosU64(x[1])

\* A pipeline pact in place of the exchange: the record stays where it is.
ExchangeTargetSelf(key, w, n) == w

\* Exchange pact: the record goes to worker (key mod peers); w is the
\* worker that sends it.
ExchangeTarget(key, w, n) == key % n

\* map(|x| x.1).
Untag(x) == x[2]

\* Items of time <= t still on their way through the partitioner.
InPartitioner(t) ==
    {i \in BagToSet(input) : i.t <= t} \cup {m \in BagToSet(xch) : m.cap <= t}

\* Worker w runs push_time on one item and hands the pair to the exchange.
PushTime(w, i) ==
    /\ panicked[w] = <<>>
    /\ BagIn(i, input)
    /\ LET x == PushTimePair(i.t, [s |-> i.s, e |-> i.e, v |-> i.v])
           m == [from |-> w, to |-> ExchangeTarget(TimeKey(x), w, peers),
                 cap |-> i.t, x |-> x]
       IN  /\ input' = input (-) BagOf(i)
           /\ xch' = xch (+) BagOf(m)
    /\ UNCHANGED <<peers, fed, part, explored, output, output2, chan, aggregates,
                   reduced, out, panicked>>
    /\ UNCHANGED <<policyVars, engineVars, scaleVars, reduceVars, driverVars>>

\* The receiving worker pulls one pair from the exchange and drops the tag.
MapUntag(m) ==
    /\ BagIn(m, xch)
    /\ panicked[m.to] = <<>>
    /\ LET d == Untag(m.x)
       IN  part' = part (+) BagOf([w |-> m.to, t |-> m.cap, s |-> d.s,
                                   e |-> d.e, v |-> d.v])
    /\ xch' = xch (-) BagOf(m)
    /\ UNCHANGED <<peers, fed, input, explored, output, output2, chan, aggregates,
                   reduced, out, panicked>>
    /\ UNCHANGED <<policyVars, engineVars, scaleVars, reduceVars, driverVars>>

(* -------------------------- group_explore ------------------------------ *)
Dirs == {"fwd", "bwd"}

\* Both explorations keyed by the source.
KeyAlwaysSrc(dir, e) == Src(e)

\* The key extractors handed to group_explore: (|e| e.src(), |e| e.dst())
\* forward and (|e| e.dst(), |e| e.src()) backward.
Key(dir, e) == IF dir = "fwd" THEN Src(e) ELSE Dst(e)

RevKey(dir, e) == IF dir = "fwd" THEN Dst(e) ELSE Src(e)

\* A policy that never denies continuation.
PermitsAlways(h) == TRUE

\* Capacity policy, a fixed hop limit: the frontier reached after h rounds
\* may go on while fewer than `capacity` edges lie behind it.
Permits(h) == h < capacity

\* The frontier seeded by the entry points: key -> flow value at the key.
SeedFrontier(Ent, dir) ==
    LET ps == BagToSet(Ent)
        w == [p \in ps |-> Ent[p] * p[2]]
    IN  [n \in {Key(dir, p[1]) : p \in ps} |->
            SumOver(w, {p \in ps : Key(dir, p[1]) = n})]

\* The edges of G whose incoming endpoint is a frontier key.
Matching(G, F, dir) == {e \in BagToSet(G) : Key(dir, e) \in DOMAIN F}

\* One round: every matching edge is emitted with the value of its key.
RoundEmits(G, F, dir) ==
    LET es == Matching(G, F, dir)
    IN  [p \in {<<e, F[Key(dir, e)]>> : e \in es} |-> G[p[1]]]

\* The frontier of the next round: the values arriving at each endpoint.
NextFrontier(G, F, dir) ==
    LET es == Matching(G, F, dir)
        w == [e \in es |-> G[e] * F[Key(dir, e)]]
    IN  [n \in {RevKey(dir, e) : e \in es} |->
            SumOver(w, {e \in es : RevKey(dir, e) = n})]

RECURSIVE ExploreRounds(_, _, _, _)
ExploreRounds(G, F, dir, h) ==
    IF DOMAIN F = {} THEN EmptyBag
    ELSE RoundEmits(G, F, dir) (+)
         (IF Permits(h) THEN ExploreRounds(G, NextFrontier(G, F, dir), dir, h + 1)
          ELSE EmptyBag)

\* group_explore: the bag of (edge, value) of one exploration.
GroupExplore(G, Ent, dir) == ExploreRounds(G, SeedFrontier(Ent, dir), dir, 1)

\* No round runs beyond this one, whatever the policy says.
MaxRounds == MaxHops + 1

\* The exploration starts: the entry points seed the frontier.
Seed ==
    /\ hop = 0
    /\ frontier' = SeedFrontier(entries, dirn)
    /\ hop' = 1
    /\ UNCHANGED <<graph, entries, dirn, results>>
    /\ UNCHANGED <<pipeVars, policyVars, scaleVars, reduceVars, driverVars>>

\* One propagation round: the edges matching the frontier are emitted,
\* and their far ends are the next frontier if the policy permits.
Round ==
    /\ hop >= 1 /\ hop <= MaxRounds
    /\ DOMAIN frontier # {}
    /\ LET E == RoundEmits(graph, frontier, dirn)
       IN  results' = results (+)
               [m \in {<<p[1], p[2], hop>> : p \in BagToSet(E)} |-> E[<<m[1], m[2]>>]]
    /\ frontier' = IF Permits(hop) THEN NextFrontier(graph, frontier, dirn)
                   ELSE <<>>
    /\ hop' = hop + 1
    /\ UNCHANGED <<graph, entries, dirn>>
    /\ UNCHANGED <<pipeVars, policyVars, scaleVars, reduceVars, driverVars>>

(* ----------------------- betweenness_centrality ------------------------- *)
\* The graph stream with the entry edges of both directions.
GraphStreamBothEntries(w, t, dir) ==
    LET is == {i \in BagToSet(part) : i.w = w /\ i.t = t}
        cnt == [i \in is |-> part[i]]
    IN  [e \in {i.e : i \in is} |-> SumOver(cnt, {i \in is : i.e = e})]

\* The graph stream alone, the entry edges not concatenated.
GraphStreamNoEntries(w, t, dir) ==
    LET gs == {i \in BagToSet(part) : i.w = w /\ i.t = t /\ i.s = "graph"}
    IN  [e \in {i.e : i \in gs} |-> part[CHOOSE i \in gs : i.e = e]]

\* The items of stream s that worker w holds for time t after the exchange.
PartAt(w, t, s) == {i \in BagToSet(part) : i.w = w /\ i.t = t /\ i.s = s}

\* The entry points (edge, value) of direction dir at worker w and time t.
EntriesAt(w, t, dir) ==
    LET is == PartAt(w, t, dir)
        c == [p \in {<<i.e, i.v>> : i \in is} |->
                 part[[w |-> w, t |-> t, s |-> dir, e |-> p[1], v |-> p[2]]]]
    IN  c

\* graph_stream.concat(&entries.map(|(e, _)| e)): the graph one exploration
\* runs on, as a bag of edges.
GraphStream(w, t, dir) ==
    LET gs == PartAt(w, t, "graph")
        es == PartAt(w, t, dir)
        cnt == [i \in gs \cup es |-> part[i]]
    IN  [e \in {i.e : i \in gs \cup es} |->
            SumOver(cnt, {i \in gs \cup es : i.e = e})]

\* No filter: every tuple goes on to aggregate.
FilterEdgeAll(e) == TRUE

\* A filter that looks at the destination only.
FilterEdgeDstOnly(e) == IsSome(Dst(e))

\* combined.filter(|&(ref e, _)| e.src().is_some() && e.dst().is_some()).
FilterEdge(e) == IsSome(Src(e)) /\ IsSome(Dst(e))

\* A bag of (edge, value) stamped with the time of its batch.
AtTime(t, B) == [m \in {<<t, p[1], p[2]>> : p \in BagToSet(B)} |-> B[<<m[2], m[3]>>]]

\* Worker w runs one exploration of time t once the streams of that time
\* are complete; its results are concatenated, filtered and sent on.
Explore(w, t, dir) ==
    /\ panicked[w] = <<>>
    /\ <<w, t, dir>> \notin explored
    /\ InPartitioner(t) = {}
    /\ PartAt(w, t, dir) # {}
    /\ LET res == GroupExplore(GraphStream(w, t, dir), EntriesAt(w, t, dir), dir)
           kept == BagFilter(res, {p \in BagToSet(res) : FilterEdge(p[1])})
       IN  /\ IF dir = "fwd"
              THEN output' = output (+) AtTime(t, res) /\ UNCHANGED output2
              ELSE output2' = output2 (+) AtTime(t, res) /\ UNCHANGED output
           /\ chan' = chan (+) AtTime(t, kept)
    /\ explored' = explored \cup {<<w, t, dir>>}
    /\ UNCHANGED <<peers, fed, input, xch, part, aggregates, reduced, out, panicked>>
    /\ UNCHANGED <<policyVars, engineVars, scaleVars, reduceVars, driverVars>>

\* crate::hash_code of an edge: a stable hash of the edge's identity.
HashCode(e) == hasher[e]

\* An exchange of aggregate that hashes the value, not the key.
AggTargetByValue(e, v, n) == ExchangeTarget(v, 0, n)

\* The exchange of aggregate: |key| hash_code(key), applied to (key, val).
AggTarget(e, v, n) == ExchangeTarget(HashCode(e), 0, n)

\* Groups kept per hash value: one edge stands for all edges of its hash.
GroupKeyByHash(e) == CHOOSE x \in DOMAIN hasher : hasher[x] = hasher[e]

\* The key under which aggregate keeps a group: the key of the tuple.
GroupKey(e) == e

\* Groups kept in one map for all times.
GroupTimeShared(t) == 1

\* The time under which aggregate keeps a group: the time of the tuple.
GroupTime(t) == t

\* A fold closure that leaves the group as it was created.
FoldPushNothing(agg, val) == agg

\* The fold closure |_key, val, agg| agg.push(val).
FoldPush(agg, val) == Append(agg, val)

\* aggregate reads one tuple: the value joins the group of its key and time
\* (created empty when absent) at the worker the key hashes to.
Fold(m) ==
    /\ BagIn(m, chan)
    /\ LET w == AggTarget(m[2], m[3], peers)
           k == <<w, GroupTime(m[1]), GroupKey(m[2])>>
           old == IF k \in DOMAIN aggregates THEN aggregates[k] ELSE <<>>
       IN  /\ panicked[w] = <<>>
           /\ aggregates' = [j \in DOMAIN aggregates \cup {k} |->
                                IF j = k THEN FoldPush(old, m[3]) ELSE aggregates[j]]
    /\ chan' = chan (-) BagOf(m)
    /\ UNCHANGED <<peers, fed, input, xch, part, explored, output, output2,
                   reduced, out, panicked>>
    /\ UNCHANGED <<policyVars, engineVars, scaleVars, reduceVars, driverVars>>

\* The product of the two values, not scaled.
ScaleReduceNoScale(self, other, mult) == self * other

\* self * other * mult as u64, on values far below the width of u64.
ScaleReduce(self, other, mult) == self * other * mult

(* ------------------------ scale_reduce on u64 -------------------------- *)
\* A u64 is U64Bytes digits of base ByteBase, the lowest first.
U64Bytes == 8

ByteBase == 256

\* The u64 whose digit at place i is v, all others 0.
Digit(i, v) == [j \in 1..U64Bytes |-> IF j = i THEN v ELSE 0]

\* The u64 with the same digit v at the places 1..n.
Digits(n, v) == [j \in 1..U64Bytes |-> IF j <= n THEN v ELSE 0]

\* The sum of the digit products that fall on place k of a * b.
ColumnSum(a, b, k) ==
    LET S == {i \in 1..Len(a) : k + 1 - i \in 1..Len(b)}
    IN  SumOver([i \in S |-> a[i] * b[k + 1 - i]], S)

\* The digits of a * b from place k on, carry coming in.
RECURSIVE CarryFrom(_, _, _, _)
CarryFrom(a, b, k, carry) ==
    IF k > Len(a) + Len(b) THEN <<>>
    ELSE LET t == ColumnSum(a, b, k) + carry
         IN  <<t % ByteBase>> \o CarryFrom(a, b, k + 1, t \div ByteBase)

\* The product of two digit sequences, in full.
FullMul(a, b) == CarryFrom(a, b, 1, 0)

\* A digit sequence is below 2^64.
FitsU64(d) == \A i \in 1..Len(d) : i > U64Bytes => d[i] = 0

\* A result cut to 32 bits.
TruncateU32(d) == [j \in 1..U64Bytes |-> IF j <= 4 THEN d[j] ELSE 0]

\* The low 64 bits: what a u64 holds of a result.
TruncateU64(d) == SubSeq(d, 1, U64Bytes)

\* u64 * u64 without overflow checks.
WrappingMul(a, b) == TruncateU64(FullMul(a, b))

\* mult as u64 of a usize: no bit is lost.
MultAsU64(m) == m

\* <u64 as ScaleReduce>::scale_reduce: (self * other) * (mult as u64);
\* overflow tells whether one of the two multiplications overflowed.
ScaleReduceU64(self, other, mult) ==
    LET p == WrappingMul(self, other)
        q == WrappingMul(p, MultAsU64(mult))
    IN  [val |-> q,
         overflow |-> ~FitsU64(FullMul(self, other))
                      \/ ~FitsU64(FullMul(p, MultAsU64(mult)))]

\* scale_reduce is called: the result, or on overflow what the build
\* makes of it, a wrapped value or a panic.
ScaleReduceCall ==
    /\ product = <<>>
    /\ LET r == ScaleReduceU64(operands[1], operands[2], operands[3])
       IN  product' \in {[panic |-> FALSE, val |-> r.val]} \cup
                        (IF r.overflow THEN {[panic |-> TRUE, val |-> <<>>]}
                         ELSE {})
    /\ UNCHANGED operands
    /\ UNCHANGED <<pipeVars, policyVars, engineVars, reduceVars, driverVars>>

\* The group left in arrival order.
SortAggNone(agg) == agg

\* The f64 flow value that has no order: it compares with nothing.
NaN == -1

\* A comparison that always answers: NaN counts as below every value.
PartialCmpTotal(a, b) ==
    IF a < b THEN "Less" ELSE IF a = b THEN "Equal" ELSE "Greater"

\* a.partial_cmp(b) on u64 and f64: no answer when either side is NaN.
PartialCmp(a, b) ==
    IF a = NaN \/ b = NaN THEN "None"
    ELSE IF a < b THEN "Less" ELSE IF a = b THEN "Equal" ELSE "Greater"

\* One insertion of sort_by: x goes down the sorted run while it compares
\* Less; unwrap panics on a comparison without answer.
RECURSIVE InsertTail(_, _)
InsertTail(run, x) ==
    IF run = <<>> THEN [panic |-> FALSE, val |-> <<x>>]
    ELSE LET last == run[Len(run)]
             c == PartialCmp(x, last)
         IN  IF c = "None" THEN [panic |-> TRUE, val |-> <<>>]
             ELSE IF c = "Less"
             THEN LET r == InsertTail(SubSeq(run, 1, Len(run) - 1), x)
                  IN  IF r.panic THEN r
                      ELSE [panic |-> FALSE, val |-> Append(r.val, last)]
             ELSE [panic |-> FALSE, val |-> Append(run, x)]

\* sort_by on a short slice: the values are inserted one after the other.
RECURSIVE SortFrom(_, _)
SortFrom(run, rest) ==
    IF rest = <<>> THEN [panic |-> FALSE, val |-> run]
    ELSE LET r == InsertTail(run, Head(rest))
         IN  IF r.panic THEN r ELSE SortFrom(r.val, Tail(rest))

\* Whether agg.sort_by(..) panics in unwrap.
SortPanics(agg) == SortFrom(<<>>, agg).panic

\* agg.sort_by(|a, b| a.partial_cmp(b).unwrap()), when it returns.
SortAgg(agg) == SortSeq(agg, LAMBDA a, b : PartialCmp(a, b) = "Less")

\* The variant the source comment suggests, 1 => (key, 0).
EmitClosureZeroOnOne(key, agg0) ==
    LET agg == SortAgg(agg0)
        n == Len(agg)
    IN  IF n = 1 THEN [panic |-> FALSE, key |-> key, val |-> 0]
        ELSE IF n % 2 # 0
        THEN [panic |-> TRUE, n |-> n, agg |-> agg, key |-> key]
        ELSE [panic |-> FALSE, key |-> key,
              val |-> ScaleReduce(agg[1], agg[(n \div 2) + 1], n \div 2)]

\* An index off by one: agg[n/2 - 1] in place of agg[n/2].
EmitClosureLowIndex(key, agg0) ==
    LET agg == SortAgg(agg0)
        n == Len(agg)
    IN  IF n = 1 \/ n % 2 # 0
        THEN [panic |-> TRUE, n |-> n, agg |-> agg, key |-> key]
        ELSE [panic |-> FALSE, key |-> key,
              val |-> ScaleReduce(agg[1], agg[n \div 2], n \div 2)]

\* A closure that takes a group of equal values for a one-sided one.
EmitClosurePanicOnEqual(key, agg0) ==
    LET agg == SortAgg(agg0)
        n == Len(agg)
    IN  IF n = 1 \/ n % 2 # 0 \/ agg[1] = agg[n]
        THEN [panic |-> TRUE, n |-> n, agg |-> agg, key |-> key]
        ELSE [panic |-> FALSE, key |-> key,
              val |-> ScaleReduce(agg[1], agg[(n \div 2) + 1], n \div 2)]

\* The emit closure: sort, which may panic in unwrap, then panic on 1 and
\* on odd n, else the centrality agg[0].scale_reduce(agg[n/2], n/2)
\* (0-based indices).
EmitClosure(key, agg0) ==
    IF SortPanics(agg0)
    THEN [panic |-> TRUE, n |-> Len(agg0), agg |-> agg0, key |-> key,
          sorted |-> FALSE]
    ELSE LET agg == SortAgg(agg0)
             n == Len(agg)
         IN  IF n = 1 \/ n % 2 # 0
             THEN [panic |-> TRUE, n |-> n, agg |-> agg, key |-> key,
                   sorted |-> TRUE]
             ELSE [panic |-> FALSE, key |-> key,
                   val |-> ScaleReduce(agg[1], agg[(n \div 2) + 1], n \div 2)]

\* The notifications worker w has asked for: the times it holds groups of.
Pending(w) == {k[2] : k \in {j \in DOMAIN aggregates : j[1] = w}}

\* Whether an exploration of a time <= t has yet to run on some worker.
ExplorePending(t) ==
    \E w \in Workers, u \in 1..t, dir \in Dirs :
        PartAt(w, u, dir) # {} /\ <<w, u, dir>> \notin explored

\* Notification at once, whatever is still upstream.
FrontierPassedAlways(t) == TRUE

\* The input frontier of aggregate has passed t: nothing of a time <= t
\* is left upstream or in its channel.
FrontierPassed(t) ==
    /\ InPartitioner(t) = {}
    /\ ~ExplorePending(t)
    /\ \A m \in BagToSet(chan) : m[1] > t

\* Worker w is notified of time t: the groups of t are removed and handed
\* to the emit closure one by one, in the map's order; a panic ends the
\* worker, after the tuples `before` it have been given to the session.
Notify(w, t) ==
    /\ panicked[w] = <<>>
    /\ t \in Pending(w)
    /\ \A u \in Pending(w) : t <= u
    /\ FrontierPassed(t)
    /\ LET ks == {k \in DOMAIN aggregates : k[1] = w /\ k[2] = t}
           res == [k \in ks |-> EmitClosure(k[3], aggregates[k])]
           bad == {k \in ks : res[k].panic}
           group(k) == [w |-> w, t |-> t, key |-> k[3], agg |-> aggregates[k]]
           emitted(S) == [m \in {<<t, k[3], res[k].val>> : k \in S} |-> 1]
       IN  /\ aggregates' = [k \in DOMAIN aggregates \ ks |-> aggregates[k]]
           /\ IF bad = {}
              THEN /\ out' = out (+) emitted(ks)
                   /\ reduced' = reduced \cup {group(k) : k \in ks}
                   /\ UNCHANGED panicked
              ELSE \E b \in bad, before \in SUBSET (ks \ bad) :
                   /\ out' = out (+) emitted(before)
                   /\ reduced' = reduced \cup {group(k) : k \in before \cup {b}}
                   /\ panicked' = [panicked EXCEPT ![w] =
                                      [n |-> res[b].n, agg |-> res[b].agg,
                                       key |-> res[b].key, t |-> t]]
    /\ UNCHANGED <<peers, fed, input, xch, part, explored, output, output2, chan>>
    /\ UNCHANGED <<policyVars, engineVars, scaleVars, reduceVars, driverVars>>

(* -------------------------- the computation ---------------------------- *)
\* What one logical time may bring: a set of graph edges and at most one
\* entry point per direction.
EntryChoices(E) == {{}} \cup {{<<e, v>>} : e \in E, v \in Vals}

InputOf(g, f, b) ==
    UNION {{Item("graph", t, e, NoVal) : e \in g[t]} \cup
           {Item("fwd", t, p[1], p[2]) : p \in f[t]} \cup
           {Item("bwd", t, p[1], p[2]) : p \in b[t]} : t \in Times}

Inputs ==
    {S \in {InputOf(g, f, b) : g \in [Times -> SUBSET BaseEdges],
                               f \in [Times -> EntryChoices(FwdEntryEdges)],
                               b \in [Times -> EntryChoices(BwdEntryEdges)]} :
        Cardinality(S) <= MaxItems}

\* All edges over None and the nodes 1..4.
AllEdges == (0..4) \X (0..4)

\* A hash under which the edges of the runs differ.
SpreadHash == [e \in AllEdges |-> Src(e) + 2 * Dst(e)]

\* A hash that gives every edge the same value.
CollideHash == [e \in AllEdges |-> 7]

\* Nothing has run yet.
PipeStart ==
    /\ fed = input
    /\ xch = EmptyBag
    /\ part = EmptyBag
    /\ explored = {}
    /\ output = EmptyBag
    /\ output2 = EmptyBag
    /\ chan = EmptyBag
    /\ aggregates = <<>>
    /\ reduced = {}
    /\ out = EmptyBag
    /\ panicked = [w \in 0..(peers - 1) |-> <<>>]

\* The round-by-round exploration and scale_reduce are not in use.
EngineIdle ==
    /\ graph = EmptyBag /\ entries = EmptyBag /\ dirn = "fwd"
    /\ frontier = <<>> /\ hop = 0 /\ results = EmptyBag

ScaleIdle == operands = <<>> /\ product = <<>>

\* The emit closure on f64 and the example driver are not in use.
ReduceIdle == values = <<>> /\ verdict = <<>>

DriverIdle ==
    /\ round = <<>> /\ pc = <<>> /\ epoch = <<>>
    /\ flight = {} /\ probe = <<>> /\ closed = {}

Init ==
    /\ peers \in 1..MaxWorkers
    /\ input \in {SetToBag(S) : S \in Inputs}
    /\ capacity = HopLimit
    /\ hasher = SpreadHash
    /\ PipeStart /\ EngineIdle /\ ScaleIdle /\ ReduceIdle /\ DriverIdle

Next ==
    \/ \E w \in Workers, i \in BagToSet(input) : PushTime(w, i)
    \/ \E m \in BagToSet(xch) : MapUntag(m)
    \/ \E w \in Workers, t \in Times, dir \in Dirs : Explore(w, t, dir)
    \/ \E m \in BagToSet(chan) : Fold(m)
    \/ \E w \in Workers, t \in Times : Notify(w, t)

Spec == Init /\ [][Next]_vars

(* ---------------------- one exploration, by rounds --------------------- *)
\* The graphs explored round by round: a cycle 1 -> 2 -> 3 -> 1, the
\* back edge 2 -> 1 and an edge entering at 1.
EngineEdges == {<<None, 1>>, <<1, 2>>, <<2, 3>>, <<3, 1>>, <<2, 1>>}

EngineEntryEdges == {<<None, 1>>, <<1, 2>>}

EngineEntries ==
    {S \in SUBSET (EngineEntryEdges \X Vals) : Cardinality(S) <= MaxEntries}

\* The dataflow is not in use.
PipeIdle == peers = 1 /\ input = EmptyBag /\ PipeStart

InitExplore ==
    /\ capacity \in 1..MaxHops
    /\ hasher = SpreadHash
    /\ graph \in {SetToBag(S) : S \in SUBSET EngineEdges}
    /\ entries \in {SetToBag(S) : S \in EngineEntries}
    /\ dirn \in Dirs
    /\ frontier = <<>> /\ hop = 0 /\ results = EmptyBag
    /\ PipeIdle /\ ScaleIdle /\ ReduceIdle /\ DriverIdle

NextExplore ==
    \/ Seed
    \/ Round

SpecExplore == InitExplore /\ [][NextExplore]_vars

\* The engine goes on as long as it has a round to run.
FairSpecExplore == SpecExplore /\ WF_vars(NextExplore)

(* --------------------- scale_reduce on its own ------------------------- *)
\* Operands from 0 to 2^64 - 1: 0, 1, 2, 3, 255, 2^8, 2^31, 2^32 - 1, 2^32,
\* 2^63 and 2^64 - 1.
U64Operands ==
    {Digit(1, 0), Digit(1, 1), Digit(1, 2), Digit(1, 3), Digit(1, 255),
     Digit(2, 1), Digit(4, 128), Digits(4, 255), Digit(5, 1), Digit(8, 128),
     Digits(8, 255)}

\* Multiplicands n/2 of the emit closure, and large ones.
UsizeOperands == {Digit(1, 0), Digit(1, 1), Digit(1, 2), Digit(1, 3), Digit(5, 1)}

InitScale ==
    /\ operands \in U64Operands \X U64Operands \X UsizeOperands
    /\ product = <<>>
    /\ capacity = HopLimit /\ hasher = SpreadHash
    /\ PipeIdle /\ EngineIdle /\ ReduceIdle /\ DriverIdle

NextScale == ScaleReduceCall

SpecScale == InitScale /\ [][NextScale]_vars

(* --------------------- the emit closure on its own --------------------- *)
\* The largest group the closure is given.
MaxGroup == 4

\* The flow values of an f64 run: the ordered ones and NaN.
F64Vals == Vals \cup {NaN}

\* The groups the closure is given: the fold has pushed at least one value.
Groups == UNION {[1..n -> F64Vals] : n \in 1..MaxGroup}

\* The closure is run once on the group of edge 1 -> 2.
EmitCall ==
    /\ verdict = <<>>
    /\ verdict' = EmitClosure(<<1, 2>>, values)
    /\ UNCHANGED values
    /\ UNCHANGED <<pipeVars, policyVars, engineVars, scaleVars, driverVars>>

InitReduce ==
    /\ values \in Groups
    /\ verdict = <<>>
    /\ capacity = HopLimit /\ hasher = SpreadHash
    /\ PipeIdle /\ EngineIdle /\ ScaleIdle /\ DriverIdle

NextReduce == EmitCall

SpecReduce == InitReduce /\ [][NextReduce]_vars

(* ------------------------- the example drivers ------------------------- *)
\* The rounds and the records per round of a run: arguments of
\* profiled_dataflow (rounds, size), fixed to 2 and 3 in basic_dataflow.
Rounds == 3
Batch == 3

\* What worker w inserts in round r: the records i with i % peers = w.
Inserts(w, r) ==
    {[t |-> r, i |-> i, at |-> w, stage |-> "input"] :
        i \in {j \in 0..(Batch - 1) : w = j % peers}}

\* The key the dataflow exchanges record i by (person / 2, its manager).
KeyOf(i) == i \div 2

\* The times that may still be seen at the probe: those of the records
\* inside the dataflow and those the inputs are at.
TimesLeft(fl, ep) == {m.t : m \in fl} \cup {ep[w] : w \in Workers}

\* The frontier at the probe.
Frontier(fl, ep) ==
    CHOOSE t \in TimesLeft(fl, ep) : \A u \in TimesLeft(fl, ep) : t <= u

\* A driver that does not wait.
ProbeLessThanNever(w) == FALSE

\* probe.less_than(input.time()), as worker w sees it.
ProbeLessThan(w) == probe[w] < epoch[w]

\* The body of the for loop up to its while: worker w inserts its share
\* of the round, advances its input to round + 1 and flushes.
Feed(w) ==
    /\ pc[w] = "feed"
    /\ flight' = flight \cup Inserts(w, round[w])
    /\ epoch' = [epoch EXCEPT ![w] = round[w] + 1]
    /\ pc' = [pc EXCEPT ![w] = "wait"]
    /\ UNCHANGED <<round, probe, closed>>
    /\ UNCHANGED <<pipeVars, policyVars, engineVars, scaleVars, reduceVars>>

\* worker.step() inside the while: the new records at worker w go through
\* the exchange, those of the exchanged records that have arrived at w go
\* past the probe, and the probe of w shows a frontier not ahead of the
\* true one.
Step(w) ==
    /\ pc[w] = "wait"
    /\ ProbeLessThan(w)
    /\ LET new == {m \in flight : m.at = w /\ m.stage = "input"}
           moved == {[t |-> m.t, i |-> m.i, stage |-> "exch",
                      at |-> ExchangeTarget(KeyOf(m.i), w, peers)] : m \in new}
       IN  \E arrived \in SUBSET {m \in flight : m.at = w /\ m.stage = "exch"} :
               /\ flight' = (flight \ (new \cup arrived)) \cup moved
               /\ closed' = closed \cup {<<m.t, m.i>> : m \in arrived}
    /\ \E f \in probe[w]..Frontier(flight', epoch) :
           probe' = [probe EXCEPT ![w] = f]
    /\ UNCHANGED <<round, pc, epoch>>
    /\ UNCHANGED <<pipeVars, policyVars, engineVars, scaleVars, reduceVars>>

\* The while is left: "closed times before" is logged and the for loop
\* goes to its next round, or ends.
CloseRound(w) ==
    /\ pc[w] = "wait"
    /\ ~ProbeLessThan(w)
    /\ round' = [round EXCEPT ![w] = round[w] + 1]
    /\ pc' = [pc EXCEPT ![w] = IF round[w] + 1 < Rounds THEN "feed" ELSE "done"]
    /\ UNCHANGED <<epoch, flight, probe, closed>>
    /\ UNCHANGED <<pipeVars, policyVars, engineVars, scaleVars, reduceVars>>

\* After input.advance_to(0), on one or more workers.
InitDriver ==
    /\ peers \in 1..MaxWorkers
    /\ input = EmptyBag
    /\ capacity = HopLimit /\ hasher = SpreadHash
    /\ PipeStart /\ EngineIdle /\ ScaleIdle /\ ReduceIdle
    /\ round = [w \in Workers |-> 0]
    /\ pc = [w \in Workers |-> "feed"]
    /\ epoch = [w \in Workers |-> 0]
    /\ flight = {}
    /\ probe = [w \in Workers |-> 0]
    /\ closed = {}

\* What worker w does next.
WorkerNext(w) ==
    /\ w \in Workers
    /\ (Feed(w) \/ Step(w) \/ CloseRound(w))

NextDriver ==
    \E w \in Workers :
        \/ Feed(w)
        \/ Step(w)
        \/ CloseRound(w)

SpecDriver == InitDriver /\ [][NextDriver]_vars

\* Every worker's thread keeps running: it is stepped fairly.
FairSpecDriver ==
    SpecDriver /\ \A w \in 0..(MaxWorkers - 1) : WF_vars(WorkerNext(w))

(* ------------------------ colliding hash codes ------------------------- *)
\* The runs whose items are all of time 1, under a hash that collides.
InitCollide ==
    /\ peers \in 1..MaxWorkers
    /\ input \in {SetToBag(S) : S \in {I \in Inputs : \A i \in I : i.t = 1}}
    /\ capacity = HopLimit
    /\ hasher = CollideHash
    /\ PipeStart /\ EngineIdle /\ ScaleIdle /\ ReduceIdle /\ DriverIdle

SpecCollide == InitCollide /\ [][Next]_vars

(* ------------------------- the diamond graph --------------------------- *)
\* Hop limit of the diamond runs: the entry edge and the two edges of a path.
DiamondHops == 3

\* One source 1, one sink 4, two parallel paths 1 -> 2 -> 4 and 1 -> 3 -> 4;
\* one unit of flow enters at the source, one unit leaves at the sink.
DiamondEdges == {<<1, 2>>, <<1, 3>>, <<2, 4>>, <<3, 4>>}

Diamond(t) ==
    {Item("graph", t, e, NoVal) : e \in DiamondEdges} \cup
    {Item("fwd", t, <<None, 1>>, 1), Item("bwd", t, <<4, None>>, 1)}

InitDiamond ==
    /\ peers \in 1..MaxWorkers
    /\ input \in {SetToBag(Diamond(t)) : t \in Times}
    /\ capacity = DiamondHops
    /\ hasher = SpreadHash
    /\ PipeStart /\ EngineIdle /\ ScaleIdle /\ ReduceIdle /\ DriverIdle

SpecDiamond == InitDiamond /\ [][Next]_vars

(* ------------------------------ claims --------------------------------- *)
\* The (time, edge) pairs of the output stream.
OutKeys == {<<m[1], m[2]>> : m \in BagToSet(out)}

Odd(n) == n % 2 = 1

Range(q) == {q[i] : i \in 1..Len(q)}

Count(q, v) == Cardinality({i \in 1..Len(q) : q[i] = v})

\* Two sequences hold the same values the same number of times.
SameValues(a, b) ==
    /\ Len(a) = Len(b)
    /\ \A v \in Range(a) \cup Range(b) : Count(a, v) = Count(b, v)

\* The value at 0-based position k of q in ascending order, from ranks.
ValueAt(q, k) ==
    CHOOSE v \in Range(q) :
        /\ Cardinality({i \in 1..Len(q) : q[i] < v}) <= k
        /\ k < Cardinality({i \in 1..Len(q) : q[i] <= v})

\* C1: a group of odd size (1 included) ends its worker with a panic that
\* carries the group's size, its key (the edge) and the collected values,
\* and no (edge, centrality) is output for that edge and time.
C1_OddGroupIsFatal ==
    \A g \in reduced :
        Odd(Len(g.agg)) =>
            /\ panicked[g.w] # <<>>
            /\ panicked[g.w].key = g.key
            /\ panicked[g.w].t = g.t
            /\ panicked[g.w].n = Len(g.agg)
            /\ SameValues(panicked[g.w].agg, g.agg)
            /\ <<g.t, g.key>> \notin OutKeys

\* A group of three values, two of them different, has been reduced.
C1_Witness ==
    \E g \in reduced : Len(g.agg) = 3 /\ Cardinality(Range(g.agg)) = 2

\* C2: a group of even size 2n is output as value[0] * value[n] * n, value
\* being the group in ascending order.
C2_EvenGroupCentrality ==
    \A g \in reduced :
        ~Odd(Len(g.agg)) =>
            LET n == Len(g.agg) \div 2
                c == ValueAt(g.agg, 0) * ValueAt(g.agg, n) * n
            IN  /\ n >= 1
                /\ BagIn(<<g.t, g.key, c>>, out)
                /\ \A m \in BagToSet(out) :
                       (m[1] = g.t /\ m[2] = g.key) => m[3] = c

\* A group of four with two different values, pushed out of order, is out.
C2_Witness ==
    \E g \in reduced :
        /\ Len(g.agg) = 4 /\ Cardinality(Range(g.agg)) = 2
        /\ g.agg[1] > g.agg[2]
        /\ <<g.t, g.key>> \in OutKeys

\* C3: no edge with a missing source or destination is in the output.
C3_NoBoundaryEdgeInOutput ==
    \A m \in BagToSet(out) : IsSome(Src(m[2])) /\ IsSome(Dst(m[2]))

\* Both explorations emitted a boundary edge at a time for which an
\* (edge, centrality) has been output.
C3_Witness ==
    \E m \in BagToSet(output), m2 \in BagToSet(output2), o \in BagToSet(out) :
        /\ ~IsSome(Src(m[2])) /\ ~IsSome(Dst(m2[2]))
        /\ o[1] = m[1] /\ o[1] = m2[1]

\* C4: every item of logical time t is sent to, and held by, the worker
\* that the key of t selects, whichever worker sent it.
C4_SameTimeSameWorker ==
    /\ \A m \in BagToSet(xch) : m.to = AsNanosU64(m.cap) % peers
    /\ \A i \in BagToSet(part) : i.w = AsNanosU64(i.t) % peers
    /\ \A i, j \in BagToSet(part) : i.t = j.t => i.w = j.w

\* Two workers sent items of one time, of different streams; one has
\* arrived, and an item of another time sits at another worker.
C4_Witness ==
    \E i, k \in BagToSet(part), m \in BagToSet(xch) :
        /\ i.t = m.cap /\ i.s # m.x[2].s /\ m.from # m.to
        /\ k.t # i.t /\ k.w # i.w

\* The items of time t in bag B, without their place; F maps each element
\* of B to the item it carries.
ItemsAt(B, F, t) ==
    LET xs == {x \in BagToSet(B) : F[x].t = t}
        c == [x \in xs |-> B[x]]
    IN  [i \in {F[x] : x \in xs} |-> SumOver(c, {x \in xs : F[x] = i})]

OfInput(B) == [i \in BagToSet(B) |-> i]

OfXch == [m \in BagToSet(xch) |-> Item(m.x[2].s, m.cap, m.x[2].e, m.x[2].v)]

OfPart == [i \in BagToSet(part) |-> Item(i.s, i.t, i.e, i.v)]

\* C5: push_time gives one pair (t, item) per item, t the time of the
\* item's batch, and at every time the items not yet read, those in the
\* exchange and those delivered add up to the items fed at that time.
C5_PureRouting ==
    /\ \A m \in BagToSet(xch) : m.x[1] = m.cap
    /\ \A t \in Times :
           ItemsAt(input, OfInput(input), t) (+) ItemsAt(xch, OfXch, t)
               (+) ItemsAt(part, OfPart, t) = ItemsAt(fed, OfInput(fed), t)

\* Everything fed has been delivered: three items, of both times, on two
\* workers.
C5_Witness ==
    /\ input = EmptyBag /\ xch = EmptyBag
    /\ BagCardinality(part) = 3
    /\ \E i, j \in BagToSet(part) : i.t # j.t /\ i.w # j.w

(* ---- what the inputs of one logical time determine, worker-free ---- *)
FedAt(t, st) == {i \in BagToSet(fed) : i.t = t /\ i.s = st}

\* The graph of one direction at time t: graph items and entry edges.
RefGraph(t, dir) ==
    LET is == FedAt(t, "graph") \cup FedAt(t, dir)
        c == [i \in is |-> fed[i]]
    IN  [e \in {i.e : i \in is} |-> SumOver(c, {i \in is : i.e = e})]

RefEntries(t, dir) ==
    [p \in {<<i.e, i.v>> : i \in FedAt(t, dir)} |->
        fed[Item(dir, t, p[1], p[2])]]

\* The merged results of both explorations of time t: (edge, value) -> count.
RefCombined(t) ==
    GroupExplore(RefGraph(t, "fwd"), RefEntries(t, "fwd"), "fwd") (+)
    GroupExplore(RefGraph(t, "bwd"), RefEntries(t, "bwd"), "bwd")

\* The non-boundary edges some exploration of time t emits.
RefEdges(t) ==
    {p[1] : p \in {q \in BagToSet(RefCombined(t)) :
                      IsSome(Src(q[1])) /\ IsSome(Dst(q[1]))}}

\* The values of edge e at time t: value -> count.
RefGroup(t, e) ==
    LET B == RefCombined(t)
    IN  [v \in {p[2] : p \in {q \in BagToSet(B) : q[1] = e}} |-> B[<<e, v>>]]

RefSize(t, e) == BagCardinality(RefGroup(t, e))

\* The value of 0-based rank k in a bag of values.
RefValueAt(B, k) ==
    CHOOSE v \in BagToSet(B) :
        /\ BagCardinality(BagFilter(B, {u \in BagToSet(B) : u < v})) <= k
        /\ k < BagCardinality(BagFilter(B, {u \in BagToSet(B) : u <= v}))

\* The (time, edge, centrality) tuples the inputs of time t determine.
RefOut(t) ==
    {<<t, e, RefValueAt(RefGroup(t, e), 0) *
             RefValueAt(RefGroup(t, e), RefSize(t, e) \div 2) *
             (RefSize(t, e) \div 2)>> :
        e \in {x \in RefEdges(t) : ~Odd(RefSize(t, x))}}

OutAt(t) == {m \in BagToSet(out) : m[1] = t}

\* How many output tuples edge e has at time t.
OutCount(t, e) ==
    BagCardinality(BagFilter(out, {m \in BagToSet(out) : m[1] = t /\ m[2] = e}))

\* The non-boundary edges the explorations that ran emitted at time t.
ExploredEdges(t) ==
    {m[2] : m \in {x \in BagToSet(output) \cup BagToSet(output2) :
                      x[1] = t /\ IsSome(Src(x[2])) /\ IsSome(Dst(x[2]))}}

\* No worker has panicked.
NoPanic == \A w \in Workers : panicked[w] = <<>>

\* Nothing is left to do: the run is over, complete or aborted.
Quiescent ==
    /\ BagToSet(input) = {} /\ BagToSet(xch) = {}
    /\ BagToSet(chan) = {} \/ ~NoPanic
    /\ DOMAIN aggregates = {} \/ ~NoPanic
    /\ ~ExplorePending(MaxTime) \/ ~NoPanic
    /\ ~ENABLED Next

\* C6 as stated: never two tuples for an edge at a time, and at the end of
\* the run one tuple for every non-boundary edge explored at that time.
C6_OnePerEdgeAndTime ==
    /\ \A t \in Times : \A m \in OutAt(t) : OutCount(t, m[2]) = 1
    /\ Quiescent =>
           \A t \in Times : \A e \in ExploredEdges(t) : OutCount(t, e) = 1

\* C6 amended: never two tuples for an edge at a time, and one for every
\* non-boundary explored edge once the run has ended without a panic.
C6_OnePerEdgeAndTimeUnlessAborted ==
    /\ \A t \in Times : \A m \in OutAt(t) : OutCount(t, m[2]) = 1
    /\ (NoPanic /\ Quiescent) =>
           \A t \in Times : \A e \in ExploredEdges(t) : OutCount(t, e) = 1

\* The run ended without a panic and an edge emitted four times by the
\* explorations of its time has its one tuple.
C6_Witness ==
    /\ peers = 2 /\ NoPanic /\ Quiescent
    /\ \E t \in Times : \E e \in ExploredEdges(t) :
           RefSize(t, e) = 4 /\ OutCount(t, e) = 1

\* C7 as stated: the output of a time is the set its inputs determine,
\* whatever the workers and the order: every tuple output is in that set,
\* and a worker that has reduced a group of time t has output the tuple of
\* every even group of time t that is routed to it.
C7_OutputDetermined ==
    /\ \A t \in Times : OutAt(t) \subseteq RefOut(t)
    /\ \A g \in reduced : \A m \in RefOut(g.t) :
           AggTarget(m[2], m[3], peers) = g.w => BagIn(m, out)

\* C7 amended: every tuple output is the one its inputs determine, and a
\* run that ends without a panic has output all of them.
C7_OutputDeterminedUnlessAborted ==
    /\ \A t \in Times : \A m \in OutAt(t) : m \in RefOut(t)
    /\ (NoPanic /\ Quiescent) => \A t \in Times : OutAt(t) = RefOut(t)

\* A group of four whose values arrived out of order is output, the run
\* over, on two workers.
C7_Witness ==
    /\ peers = 2 /\ NoPanic /\ Quiescent
    /\ \E g \in reduced :
           /\ Len(g.agg) = 4 /\ g.agg[1] > g.agg[2] /\ g.agg[3] > g.agg[2]
           /\ OutCount(g.t, g.key) = 1

\* C8: a group is reduced only when it is complete: it holds every tuple
\* the explorations of its time produce for its edge, none is on its way.
C8_NoPartialResult ==
    \A g \in reduced :
        /\ Len(g.agg) = RefSize(g.t, g.key)
        /\ \A m \in BagToSet(chan) : m[1] # g.t
        /\ \A i \in BagToSet(input) : i.t # g.t
        /\ \A m \in BagToSet(xch) : m.cap # g.t
        /\ \A w \in Workers, dir \in Dirs :
               PartAt(w, g.t, dir) # {} => <<w, g.t, dir>> \in explored

\* A group of time 1 with values of both directions is reduced while a
\* tuple of time 2 is still on its way to aggregate.
C8_Witness ==
    \E g \in reduced :
        /\ g.t = 1 /\ Len(g.agg) = 2
        /\ \E m \in BagToSet(chan) : m[1] = 2

(* ------------- one-sided and well-formed inputs of a time -------------- *)
\* Time t has forward entry points and no backward entry point.
ForwardOnly(t) == FedAt(t, "fwd") # {} /\ FedAt(t, "bwd") = {}

\* C9 as stated: at a time seeded forward only, no edge gets a centrality,
\* and a run in which the forward exploration reached a non-boundary edge
\* ends with a panic.
C9_ForwardOnlyIsFatal ==
    \A t \in Times :
        ForwardOnly(t) =>
            /\ OutAt(t) = {}
            /\ (Quiescent /\ RefEdges(t) # {}) => ~NoPanic

\* C9 amended: at a time seeded forward only, a group of odd size is
\* fatal and gets no tuple, a group of even size passes the parity check
\* and gets the non-zero value[0] * value[n] * n, and a run in which
\* the forward exploration emitted some non-boundary edge an odd number of
\* times ends with a panic.
C9_ForwardOnlyFatalWhenOdd ==
    \A t \in Times :
        ForwardOnly(t) =>
            /\ \A g \in reduced :
                   (g.t = t /\ Odd(Len(g.agg))) =>
                       /\ panicked[g.w] # <<>> /\ panicked[g.w].key = g.key
                       /\ OutCount(t, g.key) = 0
            /\ \A m \in OutAt(t) :
                   /\ ~Odd(RefSize(t, m[2]))
                   /\ m \in RefOut(t)
                   /\ m[3] > 0
            /\ (Quiescent /\ \E e \in RefEdges(t) : Odd(RefSize(t, e))) => ~NoPanic

\* At a time seeded forward only one edge, emitted twice, has its
\* centrality and another, emitted once, has ended its worker.
C9_Witness ==
    \E t \in Times :
        /\ ForwardOnly(t) /\ Quiescent
        /\ OutAt(t) # {}
        /\ \E w \in Workers : panicked[w] # <<>> /\ panicked[w].t = t

\* The graph of direction dir at time t as a set of edges.
RefEdgeSet(t, dir) == BagToSet(RefGraph(t, dir))

\* The end of edge e at which an exploration of direction dir comes to it,
\* and the end at which it leaves it.
NearEnd(dir, e) == IF dir = "fwd" THEN e[1] ELSE e[2]
FarEnd(dir, e) == IF dir = "fwd" THEN e[2] ELSE e[1]

\* The nodes that walks of len edges reach from the entry points.
RECURSIVE ReachKeys(_, _, _)
ReachKeys(t, dir, len) ==
    IF len = 0 THEN {NearEnd(dir, i.e) : i \in FedAt(t, dir)}
    ELSE {FarEnd(dir, e) : e \in {x \in RefEdgeSet(t, dir) :
                                     NearEnd(dir, x) \in ReachKeys(t, dir, len - 1)}}

\* The rounds in which the exploration of direction dir comes to edge e.
RoundsOf(t, dir, e) ==
    {r \in 1..HopLimit :
        e \in RefEdgeSet(t, dir) /\ NearEnd(dir, e) \in ReachKeys(t, dir, r - 1)}

\* The non-boundary edges among the graph items and entry edges of time t.
InnerEdgesAt(t) ==
    {e \in RefEdgeSet(t, "fwd") \cup RefEdgeSet(t, "bwd") :
        IsSome(Src(e)) /\ IsSome(Dst(e))}

\* Time t is seeded in both directions and every non-boundary edge of its
\* graph is reached by the forward and by the backward exploration.
WellFormed(t) ==
    /\ FedAt(t, "fwd") # {} /\ FedAt(t, "bwd") # {}
    /\ InnerEdgesAt(t) # {}
    /\ \A e \in InnerEdgesAt(t) :
           RoundsOf(t, "fwd", e) # {} /\ RoundsOf(t, "bwd", e) # {}

\* Well-formed, each exploration comes to every non-boundary edge in one
\* round only, and a non-boundary edge is an entry edge of both
\* directions or of none.
WellFormedPaired(t) ==
    /\ WellFormed(t)
    /\ \A e \in InnerEdgesAt(t) :
           /\ Cardinality(RoundsOf(t, "fwd", e)) = 1
           /\ Cardinality(RoundsOf(t, "bwd", e)) = 1
           /\ (\E i \in FedAt(t, "fwd") : i.e = e) <=>
              (\E i \in FedAt(t, "bwd") : i.e = e)

C11_DiamondCentrality ==
    /\ NoPanic
    /\ \A m \in BagToSet(out) : m[2] \in DiamondEdges /\ m[3] = 1 /\ out[m] = 1
    /\ \A g \in reduced : g.agg = <<1, 1>>
    /\ Quiescent =>
           \E t \in Times :
               BagToSet(out) = {<<t, e, 1>> : e \in DiamondEdges}

\* The diamond run is over on two workers, four tuples output.
C11_Witness ==
    /\ peers = 2 /\ Quiescent
    /\ Cardinality(BagToSet(out)) = 4
    /\ Cardinality({g.w : g \in reduced}) = 2

(* ------------------------ one exploration ------------------------------ *)
\* The exploration has stopped of itself: seeded, and the frontier empty.
Done == hop >= 1 /\ DOMAIN frontier = {}

\* The keys at the end of walks of len edges from the entry points.
RECURSIVE WalkEnds(_)
WalkEnds(len) ==
    IF len = 0 THEN {NearEnd(dirn, p[1]) : p \in BagToSet(entries)}
    ELSE {FarEnd(dirn, e) : e \in {x \in BagToSet(graph) :
                                     NearEnd(dirn, x) \in WalkEnds(len - 1)}}

\* C12: under a hop limit of k (capacity) an edge is emitted in a round
\* r <= k only, and it is the r-th edge of a walk along the direction
\* that starts at an entry point; no round beyond k runs.
C12_CapacityBound ==
    /\ hop <= capacity + 1
    /\ \A m \in BagToSet(results) :
           /\ m[3] >= 1 /\ m[3] <= capacity
           /\ m[1] \in BagToSet(graph)
           /\ NearEnd(dirn, m[1]) \in WalkEnds(m[3] - 1)

\* On a graph with a cycle the exploration emitted an edge in round k and
\* stopped, although an edge leaves the frontier it had reached.
C12_Witness ==
    /\ Done /\ capacity >= 2
    /\ \E m \in BagToSet(results) : m[3] = capacity
    /\ \E e \in BagToSet(graph) : NearEnd(dirn, e) \in WalkEnds(capacity)

\* The mirror image of an edge, of a graph, of entry points or results, and
\* the opposite direction.
RevEdge(e) == <<e[2], e[1]>>

RevGraph(G) == [e \in {RevEdge(x) : x \in BagToSet(G)} |-> G[RevEdge(e)]]

RevPairs(B) ==
    [p \in {<<RevEdge(q[1]), q[2]>> : q \in BagToSet(B)} |->
        B[<<RevEdge(p[1]), p[2]>>]]

Opposite(dir) == IF dir = "fwd" THEN "bwd" ELSE "fwd"

\* The (edge, value) emitted so far, without the round.
Untagged ==
    LET ps == {<<m[1], m[2]>> : m \in BagToSet(results)}
        c == [m \in BagToSet(results) |-> results[m]]
    IN  [p \in ps |->
            SumOver(c, {m \in BagToSet(results) : m[1] = p[1] /\ m[2] = p[2]})]

\* C13: the exploration of graph G from entry points E in one direction
\* gives the mirror image of the exploration of the reverse of G from the
\* reversed entry points in the opposite direction: the same edges,
\* reversed, with the same values and multiplicities.
C13_DirectionSymmetry ==
    LET mirror == RevPairs(GroupExplore(RevGraph(graph), RevPairs(entries),
                                        Opposite(dirn)))
    IN  /\ GroupExplore(graph, entries, dirn) = mirror
        /\ Done => Untagged = mirror

\* A backward exploration from two entry points is done after three
\* rounds: an edge was emitted in two rounds, with different values.
C13_Witness ==
    /\ Done /\ dirn = "bwd" /\ capacity = 3
    /\ \E m, n \in BagToSet(results) : m[1] = n[1] /\ m[2] # n[2] /\ m[3] # n[3]
    /\ \E p, q \in BagToSet(entries) : p[1] # q[1]

\* The exploration is over: it has stopped and no step is left to it, so
\* nothing more is emitted.
Halted == Done /\ ~ENABLED NextExplore

\* C16: every exploration, on a graph with cycles as well, comes to a
\* state where the frontier is empty (the policy denied continuation or
\* no edge matched), and stays there: no further tuple is emitted.
C16_Terminates == <>[]Halted

\* An exploration on the cycle 1 -> 2 -> 3 -> 1 is over: the policy stopped
\* it after its last round, while edges still matched its frontier.
C16_Witness ==
    /\ Halted
    /\ results # EmptyBag
    /\ hop = capacity + 1 /\ capacity = MaxHops
    /\ {<<1, 2>>, <<2, 3>>, <<3, 1>>} \subseteq BagToSet(graph)
    /\ \E e \in BagToSet(graph) : NearEnd(dirn, e) \in WalkEnds(capacity)

(* ------------------------- one-sided groups ---------------------------- *)
\* How many tuples the exploration of direction dir emitted for edge e at
\* time t.
EmittedBy(dir, t, e) ==
    LET B == IF dir = "fwd" THEN output ELSE output2
    IN  BagCardinality(BagFilter(B, {m \in BagToSet(B) : m[1] = t /\ m[2] = e}))

\* The group of edge e at time t was fed by one exploration only.
OneSided(t, e) == EmittedBy("fwd", t, e) = 0 \/ EmittedBy("bwd", t, e) = 0

\* C14: a reduced group whose tuples all come from one direction and
\* number 2n passes the parity check: no panic names it and its edge gets
\* value[0] * value[n] * n, as any even group does; the groups hold values
\* only, nothing that tells the direction of a tuple.
C14_OneSidedEvenPasses ==
    /\ \A g \in reduced :
           (OneSided(g.t, g.key) /\ ~Odd(RefSize(g.t, g.key))) =>
               LET n == Len(g.agg) \div 2
               IN  /\ Len(g.agg) = RefSize(g.t, g.key) /\ n >= 1
                   /\ Len(g.agg) = EmittedBy("fwd", g.t, g.key)
                                    + EmittedBy("bwd", g.t, g.key)
                   /\ \A w \in Workers :
                          panicked[w] # <<>> =>
                              ~(panicked[w].t = g.t /\ panicked[w].key = g.key)
                   /\ OutCount(g.t, g.key) = 1
                   /\ BagIn(<<g.t, g.key,
                              ValueAt(g.agg, 0) * ValueAt(g.agg, n) * n>>, out)
    /\ \A k \in DOMAIN aggregates :
           \A i \in 1..Len(aggregates[k]) : aggregates[k][i] \in Nat

\* The backward exploration alone emitted an edge twice, with value 2,
\* and the edge has centrality 4.
C14_Witness ==
    \E g \in reduced :
        /\ EmittedBy("fwd", g.t, g.key) = 0 /\ EmittedBy("bwd", g.t, g.key) = 2
        /\ g.agg = <<2, 2>>
        /\ BagIn(<<g.t, g.key, 4>>, out)

(* ------------------------- scale_reduce -------------------------------- *)
\* The number a digit sequence below 2^24 stands for.
SmallValue(d) == d[1] + ByteBase * d[2] + ByteBase * ByteBase * d[3]

IsSmall(d) == \A i \in 1..Len(d) : i > 1 => d[i] = 0

\* The digits of the mathematical product self * other * mult.
ExactProduct == FullMul(operands[1], FullMul(operands[2], operands[3]))

\* C15: when self * other and self * other * mult are below 2^64,
\* scale_reduce returns the mathematical product, without wrap-around and
\* without a panic; on small operands this is self * other * mult.
C15_ScaleReduceExact ==
    (/\ product # <<>>
     /\ FitsU64(FullMul(operands[1], operands[2]))
     /\ FitsU64(ExactProduct)) =>
        /\ ~product.panic
        /\ Len(product.val) = U64Bytes
        /\ \A i \in 1..U64Bytes : product.val[i] = ExactProduct[i]
        /\ (\A i \in 1..3 : IsSmall(operands[i])) =>
               SmallValue(product.val) =
                   ScaleReduce(SmallValue(operands[1]), SmallValue(operands[2]),
                               SmallValue(operands[3]))

\* 2^31 * 2^31 * 2 has given 2^63.
C15_Witness ==
    /\ product # <<>>
    /\ operands = <<Digit(4, 128), Digit(4, 128), Digit(1, 2)>>
    /\ ~product.panic /\ product.val = Digit(8, 128)

(* ------------------------ grouping by edge ----------------------------- *)
\* The values of a sequence as a bag.
SeqBag(q) == [v \in Range(q) |-> Count(q, v)]

\* C17: a group holds tuples of its own edge and time only, all tuples of
\* an edge and time go to one group on the worker the hash selects, and
\* a reduced group holds exactly the tuples of its edge, also when
\* hash_code gives distinct edges the same value.
C17_GroupByEdge ==
    /\ \A k \in DOMAIN aggregates :
           /\ k[1] = HashCode(k[3]) % peers
           /\ SeqBag(aggregates[k]) \sqsubseteq RefGroup(k[2], k[3])
           /\ \A g \in reduced : ~(g.t = k[2] /\ g.key = k[3])
    /\ \A g \in reduced :
           /\ g.w = HashCode(g.key) % peers
           /\ SeqBag(g.agg) = RefGroup(g.t, g.key)
           /\ \A h \in reduced : (h.t = g.t /\ h.key = g.key) => h = g

\* Two edges with the same hash code were reduced at one time on one of
\* two workers, each with its own values.
C17_Witness ==
    /\ peers = 2
    /\ \E g, h \in reduced :
           /\ g.key # h.key /\ g.t = h.t /\ g.w = h.w
           /\ HashCode(g.key) = HashCode(h.key)
           /\ Range(g.agg) # Range(h.agg) /\ Len(g.agg) = 2

(* --------------------- the graph of an exploration --------------------- *)
\* How many items of stream st at worker w and time t carry edge e.
EdgeCount(w, t, st, e) ==
    BagCardinality(BagFilter(part, {i \in BagToSet(part) :
        i.w = w /\ i.t = t /\ i.s = st /\ i.e = e}))

\* C18: the graph of an exploration that has run is the graph stream of
\* its worker and time with the edges of its own entry points: every own
\* entry edge is in it, an edge is in it as often as these two streams
\* carry it, an entry edge of the other direction that the graph stream
\* does not carry is not in it, and the exploration emits no such edge.
C18_OwnEntryEdgesOnly ==
    /\ \A x \in explored :
           LET w == x[1]
               t == x[2]
               dir == x[3]
               G == GraphStream(w, t, dir)
           IN  /\ \A i \in PartAt(w, t, dir) : BagIn(i.e, G)
               /\ \A i \in PartAt(w, t, "graph") : BagIn(i.e, G)
               /\ \A e \in BagToSet(G) :
                      G[e] = EdgeCount(w, t, "graph", e) + EdgeCount(w, t, dir, e)
               /\ \A i \in PartAt(w, t, Opposite(dir)) :
                      (EdgeCount(w, t, "graph", i.e) = 0
                       /\ EdgeCount(w, t, dir, i.e) = 0) => ~BagIn(i.e, G)
    /\ \A m \in BagToSet(output) :
           \E i \in FedAt(m[1], "graph") \cup FedAt(m[1], "fwd") : i.e = m[2]
    /\ \A m \in BagToSet(output2) :
           \E i \in FedAt(m[1], "graph") \cup FedAt(m[1], "bwd") : i.e = m[2]

\* Both explorations of a time have run; the forward one came to node 2,
\* where the backward entry edge 2 -> None starts, which the graph stream
\* does not carry.
C18_Witness ==
    \E w \in Workers, t \in Times :
        /\ <<w, t, "fwd">> \in explored /\ <<w, t, "bwd">> \in explored
        /\ \E i \in PartAt(w, t, "bwd") : i.e = <<2, None>>
        /\ \E i \in PartAt(w, t, "fwd") : i.e = <<1, 2>>
        /\ EdgeCount(w, t, "graph", <<2, None>>) = 0
        /\ \E m \in BagToSet(output) : m[1] = t /\ m[2] = <<1, 2>>

(* ---------------------- boundary edges and parity ---------------------- *)
Boundary(e) == ~IsSome(Src(e)) \/ ~IsSome(Dst(e))

\* How many tuples the explorations of time t that ran emitted for edge e.
EmittedAt(t, e) == EmittedBy("fwd", t, e) + EmittedBy("bwd", t, e)

\* C19: boundary edges are dropped before grouping: no tuple on its way to
\* aggregate, no group and no panic has a boundary edge as its key, a
\* group holds the values of its own edge only, and a panic names a
\* non-boundary edge whose own tuples are odd in number.
C19_BoundaryNeverFatal ==
    /\ \A m \in BagToSet(chan) : ~Boundary(m[2])
    /\ \A k \in DOMAIN aggregates :
           /\ ~Boundary(k[3])
           /\ SeqBag(aggregates[k]) \sqsubseteq RefGroup(k[2], k[3])
    /\ \A g \in reduced :
           /\ ~Boundary(g.key)
           /\ Len(g.agg) = EmittedAt(g.t, g.key)
    /\ \A w \in Workers :
           panicked[w] # <<>> =>
               /\ ~Boundary(panicked[w].key)
               /\ Odd(EmittedAt(panicked[w].t, panicked[w].key))

\* The run is over without a panic; at a time with an output tuple a
\* boundary edge was emitted once, by the forward exploration only.
C19_Witness ==
    /\ NoPanic /\ Quiescent
    /\ \E t \in Times, e \in BaseEdges \cup FwdEntryEdges :
           /\ Boundary(e)
           /\ EmittedBy("fwd", t, e) = 1 /\ EmittedBy("bwd", t, e) = 0
           /\ OutAt(t) # {}

(* ------------------- n forward and n backward values ------------------- *)
\* The values the exploration of direction dir emitted for edge e at time t.
ValuesBy(dir, t, e) ==
    LET B == IF dir = "fwd" THEN output ELSE output2
    IN  {m[3] : m \in {x \in BagToSet(B) : x[1] = t /\ x[2] = e}}

\* C20: a reduced group of n forward values, all a, and n backward values,
\* all b, whichever is larger, is output as n * a * b, the sum of the n
\* products a * b.
C20_PairedCentrality ==
    \A g \in reduced :
        LET n == EmittedBy("fwd", g.t, g.key)
            A == ValuesBy("fwd", g.t, g.key)
            B == ValuesBy("bwd", g.t, g.key)
        IN  (/\ n >= 1 /\ EmittedBy("bwd", g.t, g.key) = n
             /\ Cardinality(A) = 1 /\ Cardinality(B) = 1) =>
                \A a \in A, b \in B :
                    /\ Len(g.agg) = 2 * n
                    /\ Count(g.agg, a) = (IF a = b THEN 2 * n ELSE n)
                    /\ Count(g.agg, b) = (IF a = b THEN 2 * n ELSE n)
                    /\ OutCount(g.t, g.key) = 1
                    /\ BagIn(<<g.t, g.key, n * a * b>>, out)

\* Two forward values 2 and two backward values 1 gave centrality 4.
C20_Witness ==
    \E g \in reduced :
        /\ EmittedBy("fwd", g.t, g.key) = 2 /\ EmittedBy("bwd", g.t, g.key) = 2
        /\ ValuesBy("fwd", g.t, g.key) = {2} /\ ValuesBy("bwd", g.t, g.key) = {1}
        /\ BagIn(<<g.t, g.key, 4>>, out)

(* -------------------------- non-empty groups --------------------------- *)
\* C21: a group exists only once a value was folded into it, so every group
\* held and every group handed to the emit closure has at least one value;
\* a group that yields a centrality has its two accesses, agg[0] and
\* agg[n/2] (0-based), inside the group.
C21_GroupNeverEmpty ==
    /\ \A k \in DOMAIN aggregates : Len(aggregates[k]) >= 1
    /\ \A g \in reduced :
           LET n == Len(g.agg)
           IN  /\ n >= 1
               /\ OutCount(g.t, g.key) >= 1 =>
                      /\ n >= 2
                      /\ 1 \in DOMAIN g.agg
                      /\ (n \div 2) + 1 \in DOMAIN g.agg

\* A group of two values, the smallest that yields a centrality, was
\* reduced while another group holds its first value.
C21_Witness ==
    /\ \E g \in reduced : Len(g.agg) = 2 /\ OutCount(g.t, g.key) = 1
    /\ \E k \in DOMAIN aggregates : Len(aggregates[k]) = 1

(* --------------------------- groups and times -------------------------- *)
\* How often the explorations of time t emitted value v for edge e.
EmittedValue(t, e, v) ==
    CopiesIn(<<t, e, v>>, output) + CopiesIn(<<t, e, v>>, output2)

\* C22: a group is of one time: it never holds more copies of a value than
\* the explorations of its own time emitted for its edge, a reduced group
\* holds exactly these, and a group whose own time gave an odd number of
\* tuples aborts its worker without output, whatever the other times gave.
C22_TimesNeverCombined ==
    /\ \A k \in DOMAIN aggregates :
           \A v \in Range(aggregates[k]) :
               Count(aggregates[k], v) <= EmittedValue(k[2], k[3], v)
    /\ \A g \in reduced :
           /\ Len(g.agg) = EmittedAt(g.t, g.key)
           /\ \A v \in Vals : Count(g.agg, v) = EmittedValue(g.t, g.key, v)
           /\ Odd(EmittedAt(g.t, g.key)) =>
                  /\ panicked[g.w] # <<>>
                  /\ panicked[g.w].t = g.t /\ panicked[g.w].key = g.key
                  /\ OutCount(g.t, g.key) = 0

\* An edge with one tuple at time 1 and one at time 2, two in all: the
\* group of time 1 aborted with one value while the group of time 2 holds
\* the other.
C22_Witness ==
    \E w \in Workers, e \in BaseEdges :
        /\ panicked[w] # <<>>
        /\ panicked[w].t = 1 /\ panicked[w].key = e /\ panicked[w].n = 1
        /\ EmittedAt(1, e) = 1 /\ EmittedAt(2, e) = 1
        /\ <<w, 2, e>> \in DOMAIN aggregates
        /\ Len(aggregates[<<w, 2, e>>]) = 1

(* ------------------------ values without order ------------------------- *)
\* Two values of the group have no order between them.
Unordered(q) ==
    \E i, j \in 1..Len(q) : i # j /\ (q[i] = NaN \/ q[j] = NaN)

\* How many values of q are below v, and how many are not above it.
Below(q, v) == Cardinality({i \in 1..Len(q) : q[i] < v})
UpTo(q, v) == Cardinality({i \in 1..Len(q) : q[i] <= v})

\* C23: a group with two values that have no order makes the closure
\* panic inside the sort, whatever its size, so no centrality is emitted
\* for it; and a centrality that is emitted comes from a group whose
\* values are all ordered, as the smallest value times the value of rank
\* n/2 times n/2.
C23_UnorderedAborts ==
    verdict # <<>> =>
        /\ Unordered(values) => (verdict.panic /\ ~verdict.sorted)
        /\ ~verdict.panic =>
               LET n == Len(values)
               IN  /\ \A i \in 1..n : values[i] # NaN
                   /\ \E lo, mid \in Range(values) :
                          /\ Below(values, lo) = 0
                          /\ Below(values, mid) <= n \div 2
                          /\ n \div 2 < UpTo(values, mid)
                          /\ verdict.val = lo * mid * (n \div 2)

\* A group of four, which the parity test would pass, whose last value is
\* NaN: the closure panicked in the sort.
C23_Witness ==
    /\ Len(values) = 4 /\ values[4] = NaN
    /\ \A i \in 1..3 : values[i] # NaN
    /\ verdict # <<>> /\ verdict.panic /\ ~verdict.sorted

(* ------------------------------ lock step ------------------------------ *)
\* Every record of a time before r has passed the probe.
ClosedBefore(r) ==
    /\ \A t \in 0..(r - 1), i \in 0..(Batch - 1) : <<t, i>> \in closed
    /\ \A m \in flight : m.t >= r

\* Worker w is inside the while of some round.
Waiting(w) == w \in Workers /\ pc[w] = "wait"

\* A worker that is not waiting has all output before its round complete,
\* and a record is inside the dataflow only after all output of earlier
\* times is complete.
LockStep ==
    /\ \A w \in Workers : pc[w] # "wait" => ClosedBefore(round[w])
    /\ \A m \in flight : ClosedBefore(m.t)

\* C24: the drivers run the epochs in lock step: a worker leaves the wait
\* of round r, and so inserts the input of round r + 1, only when every
\* record of a time before r + 1 has passed the probe, and with every
\* worker stepped fairly each wait comes to an end.
C24_LockStepRounds ==
    /\ []LockStep
    /\ \A w \in 0..(MaxWorkers - 1) : Waiting(w) ~> ~Waiting(w)

\* One of two workers is about to insert round 1, all of round 0 having
\* passed the probe, while the other still waits in round 0.
C24_Witness ==
    /\ peers = 2
    /\ \E w, v \in Workers :
           /\ pc[w] = "feed" /\ round[w] = 1
           /\ pc[v] = "wait" /\ round[v] = 0
           /\ ClosedBefore(1)

====
